---- MODULE Spec2Model ----
(***************************************************************************)
(* PaymentsModule.fundJob of the MDP SDK: the payment authorization and    *)
(* settlement flow (EIP-3009 authorization, facilitator settle calls or    *)
(* on-chain escrow call followed by confirmation polling).                 *)
(*                                                                         *)
(* fundJob is an async function: every segment of code between two awaits  *)
(* is one action, taken when the awaited collaborator call completes.      *)
(* `trace` is the call-sequence capture of a fake transport and signer:    *)
(* one "call" event when a collaborator call is issued and one "ret" or    *)
(* "throw" event when it completes.                                        *)
(*                                                                         *)
(* Strings the code parses (network, asset, maxAmountRequired) are         *)
(* sequences of one-character strings; strings it only passes along        *)
(* (addresses, ids, hashes) are TLA+ strings.                              *)
(***************************************************************************)
EXTENDS Integers, Sequences, FiniteSets

\* ------------------------------------------------------------------------
\* Optional values: a field that is undefined, or a present value.
\* ------------------------------------------------------------------------
None == <<>>
Some(v) == <<v>>
IsSome(o) == o # None
\* JS `o ?? d`
OrElse(o, d) == IF o # None THEN o[1] ELSE d

\* ------------------------------------------------------------------------
\* Bounds of the model
\* ------------------------------------------------------------------------
\* longest paymentIds array of an intent response
MaxIds == 3
\* longest requirements array of an intent response
MaxReqs == 2
\* time one transport call (createIntent, settle, confirm) takes when slow, ms
NetDelay == 700
\* time one signer call takes when slow, ms
SignDelay == 400
\* how late a timer may fire, ms
TimerLag == 150
\* caller-supplied options.pollIntervalMs
PollOverride == 3000
\* caller-supplied options.timeoutMs
TimeoutOverride == 7000
\* amounts given to formatUSDC are m * 10^e, positive or negative, with
\* m up to MaxMantissa and e up to MaxExponent
MaxMantissa == 15
MaxExponent == 7

\* ------------------------------------------------------------------------
\* Program constants
\* ------------------------------------------------------------------------
DefaultPollIntervalMs == 5000
DefaultTimeoutMs == 180000
ValidityWindowSec == 300
DefaultChainId == 8453
X402Version == 1
\* USDC has 6 decimals: BigInt(1e6), padStart(6, "0"), padEnd(6, "0")
UsdcDecimals == 6
UsdcScale == 1000000

\* X402_CONSTANTS.USDC_ADDRESS (abbreviated to its first characters)
USDC_ADDRESS == <<"0", "x", "8", "3", "3">>

\* ------------------------------------------------------------------------
\* String helpers
\* ------------------------------------------------------------------------
Digits == <<"0", "1", "2", "3", "4", "5", "6", "7", "8", "9">>
IsDigit(c) == \E k \in 1..10 : Digits[k] = c
DigitVal(c) == (CHOOSE k \in 1..10 : Digits[k] = c) - 1
AllDigits(s) == \A k \in 1..Len(s) : IsDigit(s[k])

RECURSIVE DecimalValue(_)
DecimalValue(s) ==
  IF s = <<>> THEN 0
  ELSE DecimalValue(SubSeq(s, 1, Len(s) - 1)) * 10 + DigitVal(s[Len(s)])

\* the not-a-number result of Number(); no digit string parses to it
NaN == 0 - 1

\* JS Number(str) on strings over digits, letters and punctuation:
\* "" is 0, a decimal digit string is its value, anything else is NaN
Number(s) == IF AllDigits(s) THEN DecimalValue(s) ELSE NaN

\* bigint.toString() for a non-negative value
RECURSIVE BigIntToString(_)
BigIntToString(n) ==
  IF n < 10 THEN <<Digits[n + 1]>>
  ELSE Append(BigIntToString(n \div 10), Digits[(n % 10) + 1])

IsPrefix(p, s) == Len(p) <= Len(s) /\ SubSeq(s, 1, Len(p)) = p

\* JS s.split(sep) for a non-empty separator: the pieces between occurrences
RECURSIVE SplitFrom(_, _, _)
SplitFrom(s, sep, cur) ==
  IF s = <<>> THEN <<cur>>
  ELSE IF IsPrefix(sep, s)
       THEN <<cur>> \o SplitFrom(SubSeq(s, Len(sep) + 1, Len(s)), sep, <<>>)
       ELSE SplitFrom(Tail(s), sep, Append(cur, Head(s)))
Split(s, sep) == SplitFrom(s, sep, <<>>)

\* bigint.toString() for any value
BigIntToStringSigned(n) ==
  IF n < 0 THEN <<"-">> \o BigIntToString(0 - n) ELSE BigIntToString(n)

\* BigInt(string) on strings over digits, signs and punctuation: "" is 0,
\* an optionally signed decimal digit string is its value, anything else
\* throws a SyntaxError
IsSign(c) == c = "-" \/ c = "+"
BigIntParses(s) ==
  \/ AllDigits(s)
  \/ Len(s) >= 2 /\ IsSign(s[1]) /\ AllDigits(Tail(s))
BigIntValue(s) ==
  IF AllDigits(s) THEN DecimalValue(s)
  ELSE IF s[1] = "-" THEN 0 - DecimalValue(Tail(s))
  ELSE DecimalValue(Tail(s))

\* bigint division and remainder: the quotient is truncated towards zero
\* and the remainder has the sign of the dividend
Quotient(a, b) == IF a >= 0 THEN a \div b ELSE 0 - ((0 - a) \div b)
Remainder(a, b) == a - b * Quotient(a, b)

\* str.padStart(n, "0") and str.padEnd(n, "0")
Zeros(n) == [k \in 1..n |-> "0"]
PadStart(str, n) == IF Len(str) >= n THEN str ELSE Zeros(n - Len(str)) \o str
PadEnd(str, n) == IF Len(str) >= n THEN str ELSE str \o Zeros(n - Len(str))
\* str.slice(0, n)
SliceTo(str, n) == IF Len(str) <= n THEN str ELSE SubSeq(str, 1, n)
\* str.replace(/0+$/, "")
RECURSIVE StripTrailingZeros(_)
StripTrailingZeros(str) ==
  IF str # <<>> /\ str[Len(str)] = "0"
  THEN StripTrailingZeros(SubSeq(str, 1, Len(str) - 1))
  ELSE str

\* JS arr[k] (zero-based), undefined past the end
At(arr, k) == IF k + 1 <= Len(arr) THEN Some(arr[k + 1]) ELSE None

\* ------------------------------------------------------------------------
\* Inputs: what the caller passes and what the collaborators answer
\* ------------------------------------------------------------------------
Net8453 == <<"e", "i", "p", "1", "5", "5", ":", "8", "4", "5", "3">>
Net10 == <<"e", "i", "p", "1", "5", "5", ":", "1", "0">>
AssetUSDC == <<"b", "/", "e", "r", "c", "2", "0", ":", "0", "x", "8", "3", "3">>
AmountEscrow == <<"1", "0", "0", "0", "0", "0", "0">>
AmountFee == <<"5", "0", "0", "0", "0">>
AmountMalformed == <<"1", "x">>

\* PaymentRequirementExtra; every field may be missing
NoExtraFields ==
  [contractMode |-> None, jobKey |-> None, agentWallet |-> None,
   agentExecutorWallet |-> None, agentPayoutWallet |-> None]
ContractExtras ==
  { [contractMode |-> Some(TRUE), jobKey |-> k, agentWallet |-> a,
     agentExecutorWallet |-> e, agentPayoutWallet |-> p] :
      k \in {None, Some("0xJobKey")}, a \in {None, Some("0xAgent")},
      e \in {None, Some("0xExec")}, p \in {None, Some("0xPayout")} }
FacilitatorExtras ==
  {None, Some([NoExtraFields EXCEPT !.contractMode = Some(FALSE)])}

Requirement(net, amount, payTo, extra) ==
  [scheme |-> "exact", network |-> net, asset |-> Some(AssetUSDC),
   maxAmountRequired |-> amount, payTo |-> payTo, extra |-> extra]

\* payTo values: the escrow and fee recipients, and a string that is no address
EscrowPayTo == "0xEscrowPayTo"
FeePayTo == "0xFeePayTo"
MalformedPayTo == "not-an-address"

\* the escrow requirement of an intent (intent.requirement): well-formed,
\* with a malformed amount, or with a malformed payTo
EscrowRequirements(extras) ==
  { Requirement(Some(Net8453), Some(mp[1]), mp[2], x) :
      mp \in {<<AmountEscrow, EscrowPayTo>>, <<AmountMalformed, EscrowPayTo>>,
              <<AmountEscrow, MalformedPayTo>>},
      x \in extras }

\* the plain platform-fee requirement: well-formed, not flagged contractMode
PlainFeeRequirement == Requirement(Some(Net8453), Some(AmountFee), FeePayTo, None)

\* a later requirement of a batch (platform fee): well-formed; on another
\* network and flagged contractMode; with a malformed amount; with a
\* malformed payTo
FeeRequirements ==
  { PlainFeeRequirement,
    Requirement(Some(Net10), Some(AmountFee), FeePayTo,
                Some([NoExtraFields EXCEPT !.contractMode = Some(TRUE)])),
    Requirement(Some(Net8453), Some(AmountMalformed), FeePayTo, None),
    Requirement(Some(Net8453), Some(AmountFee), MalformedPayTo, None) }

PaymentIdValues == {"pay0", "pay1"}

Intent(r, ids, rs) ==
  [paymentId |-> "pay0", requirement |-> r, paymentIds |-> ids, requirements |-> rs]

\* paymentIds arrays: every length up to MaxIds, starting with the intent's
\* paymentId or with another id
PaymentIdArrays ==
  { [k \in 1..n |-> IF k = 1 THEN first ELSE "pay1"] :
      n \in 0..MaxIds, first \in PaymentIdValues }

\* requirements arrays that start with the escrow requirement r: r alone, or
\* r followed by up to MaxReqs - 1 fee requirements of one kind
RequirementArrays(r) ==
  { <<r>> \o [k \in 1..n |-> f] : n \in 0..(MaxReqs - 1), f \in FeeRequirements }

\* PaymentIntentResponse: paymentId and requirement, and optionally the
\* parallel arrays paymentIds and requirements, whose lengths the client
\* does not control. requirements[0], when present, is the escrow requirement.
FacilitatorIntents ==
  UNION { { Intent(r, ids, rs) :
              ids \in {None} \cup {Some(q) : q \in PaymentIdArrays},
              rs \in {None, Some(<<>>)} \cup {Some(q) : q \in RequirementArrays(r)} } :
          r \in EscrowRequirements(FacilitatorExtras) }

\* contract-mode responses: a single requirement, or escrow plus a plain fee
\* (the contract path never reads the arrays)
ContractIntents ==
  UNION { { Intent(r, None, None),
            Intent(r, Some(<<"pay0", "pay1">>), Some(<<r, PlainFeeRequirement>>)) } :
          r \in EscrowRequirements({Some(x) : x \in ContractExtras}) }

Intents == FacilitatorIntents \cup ContractIntents

\* PaymentSigner: which optional functions the object has
Signers == [signTypedData : BOOLEAN, sendTransaction : BOOLEAN]

\* FundJobOptions, or no options argument at all
OptionsValues ==
  { None,
    Some([pollIntervalMs |-> Some(PollOverride), timeoutMs |-> Some(TimeoutOverride)]),
    Some([pollIntervalMs |-> None, timeoutMs |-> Some(TimeoutOverride)]),
    Some([pollIntervalMs |-> Some(PollOverride), timeoutMs |-> Some(0)]) }

\* how long the collaborators take, the same throughout one operation and
\* fixed when first observed: transport calls, signer calls, lateness of timers
Times(known, slow) == IF IsSome(known) THEN {known[1]} ELSE {0, slow}

\* PaymentConfirmResponse
ConfirmResponses == {Some([status |-> "pending"]), Some([status |-> "settled"])}
TxHashes == {"0xTxHash"}

\* ------------------------------------------------------------------------
\* State
\* ------------------------------------------------------------------------
VARIABLES
  pc,            \* where fundJob is: idle, the call it awaits, done, failed
  jobId, proposalId, signer, options,   \* the arguments of fundJob
  env,           \* the collaborators' timing, as far as observed
  now,           \* Date.now(), ms since the operation was called
  rng,           \* how many random 32-byte values have been drawn
  signed,        \* how many signatures the signer has produced
  intent, from, chainId, tokenAddr, value, validBefore, nonce, to,
  signature, paymentHeader,
  txHash, start,
  i, feeValue, feeNonce, feeTo, feeValidBefore, header,
  result, error, \* what fundJob returned, or the error it threw
  trace,         \* the collaborator calls made so far, in order
  \* the payment utilities, applied on their own
  baseUnits,     \* the amount given to formatUSDC
  formatted,     \* what formatUSDC returned, once called
  reparsed,      \* how parseUSDC of that string ended, once called
  parsed,        \* what the signature parser returned
  sigV,          \* the v value derived from it, once derived
  \* a second fundJob operation, suspended at an await
  running,       \* which operation the variables of fundJob above belong to
  other,         \* the locals of the operation that is not running
  \* AuthModule over its HttpClient
  token,         \* HttpClient.token
  inFlight,      \* the auth requests sent and not yet answered
  authTrace      \* the auth operations so far, in order

args == <<jobId, proposalId, signer, options>>
escrowLocals == <<from, chainId, tokenAddr, value, validBefore, nonce, to>>
feeLocals == <<feeValue, feeNonce, feeTo, feeValidBefore>>
fundJobVars ==
  <<pc, args, env, now, rng, signed, intent, escrowLocals, signature,
    paymentHeader, txHash, start, i, feeLocals, header, result, error, trace>>
utilVars == <<baseUnits, formatted, reparsed, parsed, sigV>>
concVars == <<running, other>>
authVars == <<token, inFlight, authTrace>>
\* what a step of the running fundJob operation leaves alone
restVars == <<utilVars, concVars, authVars>>
vars == <<fundJobVars, restVars>>

Ev(kind, fn, arg) == [kind |-> kind, fn |-> fn, arg |-> arg]

NoRequirement ==
  [scheme |-> "", network |-> None, asset |-> None, maxAmountRequired |-> None,
   payTo |-> "", extra |-> None]
NoIntent ==
  [paymentId |-> "", requirement |-> NoRequirement, paymentIds |-> None,
   requirements |-> None]
NoAuthorization ==
  [from |-> "", to |-> "", value |-> <<>>, validAfter |-> <<>>,
   validBefore |-> <<>>, nonce |-> 0]
NoHeader ==
  [x402Version |-> 0, scheme |-> "", network |-> None,
   payload |-> [signature |-> [id |-> 0], authorization |-> NoAuthorization]]
NoResult == [success |-> FALSE, txHash |-> None, paymentId |-> "", mode |-> ""]

\* the locals of a fundJob operation that has not been called
LocalsIdle ==
  [pc |-> "idle", jobId |-> "", proposalId |-> "",
   signer |-> [signTypedData |-> FALSE, sendTransaction |-> FALSE],
   options |-> None, intent |-> NoIntent,
   from |-> "", chainId |-> 0, tokenAddr |-> <<>>, value |-> 0,
   validBefore |-> 0, nonce |-> 0, to |-> "",
   signature |-> [id |-> 0], paymentHeader |-> NoHeader,
   txHash |-> "", start |-> 0,
   i |-> 0, feeValue |-> 0, feeNonce |-> 0, feeTo |-> "", feeValidBefore |-> 0,
   header |-> NoHeader,
   result |-> NoResult, error |-> [message |-> "", txHash |-> None],
   trace |-> <<>>]

\* no fundJob operation has been called; env holds the collaborators' timing
FundJobIdleIn(e) ==
  /\ pc = "idle"
  /\ jobId = "" /\ proposalId = ""
  /\ signer = [signTypedData |-> FALSE, sendTransaction |-> FALSE]
  /\ options = None
  /\ env = e
  /\ now = 0 /\ rng = 0 /\ signed = 0
  /\ intent = NoIntent
  /\ from = "" /\ chainId = 0 /\ tokenAddr = <<>> /\ value = 0
  /\ validBefore = 0 /\ nonce = 0 /\ to = ""
  /\ signature = [id |-> 0]
  /\ paymentHeader = NoHeader
  /\ txHash = "" /\ start = 0
  /\ i = 0 /\ feeValue = 0 /\ feeNonce = 0 /\ feeTo = "" /\ feeValidBefore = 0
  /\ header = NoHeader
  /\ result = NoResult /\ error = [message |-> "", txHash |-> None]
  /\ trace = <<>>

\* no collaborator has been timed yet
FundJobIdle == FundJobIdleIn([net |-> None, sign |-> None, lag |-> None])

\* the payment utilities have not been used
UtilIdle ==
  /\ baseUnits = 0 /\ formatted = None /\ reparsed = None
  /\ parsed = [v |-> None, yParity |-> Some(0)] /\ sigV = None

\* there is no second operation
ConcIdle == running = 1 /\ other = LocalsIdle

\* an HttpClient constructed without a token, and no auth operation yet
AuthIdle == token = None /\ inFlight = {} /\ authTrace = <<>>

Init == FundJobIdle /\ UtilIdle /\ ConcIdle /\ AuthIdle

\* ------------------------------------------------------------------------
\* Pure parts of fundJob
\* ------------------------------------------------------------------------
\* faulty variant: the signTypedData check is missing
CanSignTypedData_Unchecked(s) == TRUE
\* typeof signer.signTypedData === "function"
CanSignTypedData(s) == s.signTypedData
\* typeof signer.sendTransaction === "function"
CanSendTransaction(s) == s.sendTransaction

\* Number(String(req.network ?? "").split(":")[1] ?? 8453)
ChainId(req) ==
  LET suffix == At(Split(OrElse(req.network, <<>>), <<":">>), 1)
  IN  IF IsSome(suffix) THEN Number(suffix[1]) ELSE DefaultChainId

\* req.asset ? (req.asset.split("/erc20:")[1] ?? USDC_ADDRESS) : USDC_ADDRESS
TokenAddr(req) ==
  IF IsSome(req.asset) /\ req.asset[1] # <<>>
  THEN OrElse(At(Split(req.asset[1], <<"/", "e", "r", "c", "2", "0", ":">>), 1),
              USDC_ADDRESS)
  ELSE USDC_ADDRESS

\* BigInt(x) throws on undefined and on a string that is no integer literal
BigIntOk(x) == IsSome(x) /\ BigIntParses(x[1])
BigInt(x) == BigIntValue(x[1])

\* Math.floor(Date.now() / 1000) + 300, with Date.now() = t
ValidBeforeAt(t) == (t \div 1000) + ValidityWindowSec

\* randomBytes32Hex(): a 32-byte value drawn from the platform's random
\* source; the n-th draw is modelled as the value n, so two draws differ
\* (a collision of two 256-bit random values is not modelled)
randomBytes32Hex(n) == n + 1

\* req.extra?.field
ExtraField(req, f) == IF IsSome(req.extra) THEN req.extra[1][f] ELSE None

\* faulty variant: the flag is read the wrong way round
IsContractMode_Inverted(req) == ~OrElse(ExtraField(req, "contractMode"), FALSE)
\* Boolean(req.extra?.contractMode)
IsContractMode(req) == OrElse(ExtraField(req, "contractMode"), FALSE)

\* keccak256(toBytes(jobId))
Keccak256(j) == IF j = "job1" THEN "0xKeccakOfJob1" ELSE "0xKeccakOfOtherJob"

\* faulty variant: the precomputed key of the requirement is ignored
JobKey_AlwaysHashed(req, j) == Keccak256(j)
\* req.extra?.jobKey ?? keccak256(toBytes(jobId))
JobKey(req, j) == OrElse(ExtraField(req, "jobKey"), Keccak256(j))
AgentExecutorWallet(req) ==
  IF IsSome(ExtraField(req, "agentExecutorWallet"))
  THEN ExtraField(req, "agentExecutorWallet")
  ELSE ExtraField(req, "agentWallet")
\* faulty variant: the payout wallet does not default to the executor wallet
AgentPayoutWallet_NoDefault(req) == ExtraField(req, "agentPayoutWallet")
AgentPayoutWallet(req) ==
  IF IsSome(ExtraField(req, "agentPayoutWallet"))
  THEN ExtraField(req, "agentPayoutWallet")
  ELSE AgentExecutorWallet(req)

\* the eip712Domain object
Eip712Domain(cid, contract) ==
  [name |-> "USD Coin", version |-> "2", chainId |-> cid, verifyingContract |-> contract]

\* the message of a TransferWithAuthorization
Message(f, t, v, va, vb, n) ==
  [from |-> f, to |-> t, value |-> v, validAfter |-> va, validBefore |-> vb, nonce |-> n]

\* the argument of signer.signTypedData
TypedData(domain, message) ==
  [domain |-> domain, primaryType |-> "TransferWithAuthorization", message |-> message]

\* the x402 payload that btoa(JSON.stringify(..)) encodes into a header;
\* the amounts are carried as decimal strings
Payload(net, sig, f, t, v, va, vb, n) ==
  [x402Version |-> X402Version, scheme |-> "exact", network |-> net,
   payload |-> [signature |-> sig,
                authorization |-> [from |-> f, to |-> t,
                                   value |-> BigIntToString(v),
                                   validAfter |-> BigIntToString(va),
                                   validBefore |-> BigIntToString(vb),
                                   nonce |-> n]]]

\* paymentPayload of the escrow requirement
EscrowPayload(req, sig, f, t, v, vb, n) == Payload(req.network, sig, f, t, v, 0, vb, n)

\* the payload built for requirement i > 0: network and validBefore are the
\* escrow requirement's locals req.network and validBefore
FeePayload(req, sig, f, t, v, escrowValidBefore, signedValidBefore, n) ==
  Payload(req.network, sig, f, t, v, 0, escrowValidBefore, n)

\* encodeFunctionData for fundJobWithAuthorization; vrs stands for the
\* components v, r, s parsed from the signature
Calldata(key, f, exec, payout, v, vb, n, sig) ==
  [functionName |-> "fundJobWithAuthorization",
   jobId |-> key, poster |-> f, agentExecutor |-> exec, agentPayout |-> payout,
   totalAmount |-> v, validAfter |-> 0, validBefore |-> vb, nonce |-> n, vrs |-> sig]

\* options?.field
OptionField(o, f) == IF IsSome(o) THEN o[1][f] ELSE None
PollInterval(o) == OrElse(OptionField(o, "pollIntervalMs"), DefaultPollIntervalMs)
Timeout(o) == OrElse(OptionField(o, "timeoutMs"), DefaultTimeoutMs)

\* the loop test Date.now() - start < timeout
LoopContinues(t, st, timeout) == t - st < timeout

\* faulty variant: the status is compared with a value confirm never reports
IsSettled_Never(res) == IsSome(res) /\ res[1].status = "confirmed"
\* res?.status === "settled"
IsSettled(res) == IsSome(res) /\ res[1].status = "settled"

\* faulty variant: the sleep is not awaited, the loop goes on at once
SleepTime_NotAwaited(ms, lag) == 0
\* how long sleep(ms) suspends the caller: setTimeout fires after ms, or later
SleepTime(ms, lag) == ms + lag

SettledResult(h, pid) ==
  [success |-> TRUE, txHash |-> Some(h), paymentId |-> pid, mode |-> "contract"]
\* faulty variant: the timed-out result leaves the hash out
TimedOutResult_NoHash(h, pid) ==
  [success |-> FALSE, txHash |-> None, paymentId |-> pid, mode |-> "contract"]
TimedOutResult(h, pid) ==
  [success |-> FALSE, txHash |-> Some(h), paymentId |-> pid, mode |-> "contract"]
FacilitatorResult(pid) ==
  [success |-> TRUE, txHash |-> None, paymentId |-> pid, mode |-> "facilitator"]

\* faulty variant: the paymentIds array of the response is ignored
AllPaymentIds_FirstOnly(it) == <<it.paymentId>>
\* intent.paymentIds ?? [paymentId]
AllPaymentIds(it) == OrElse(it.paymentIds, <<it.paymentId>>)
\* intent.requirements ?? [req]
AllRequirements(it) == OrElse(it.requirements, <<it.requirement>>)
\* faulty variant: the batch is walked from its last payment id
PaymentIdAt_Reversed(it, k) == AllPaymentIds(it)[Len(AllPaymentIds(it)) - k]
\* allPaymentIds[i]
PaymentIdAt(it, k) == AllPaymentIds(it)[k + 1]
\* i > 0 && r
NeedsOwnAuthorization(k, r) == k > 0 /\ IsSome(r)

\* ------------------------------------------------------------------------
\* fundJob, one action per segment between awaits
\* ------------------------------------------------------------------------
\* the errors fundJob throws or lets through (Error, SDKError): a message,
\* and no transaction hash
Error(message) == [message |-> message, txHash |-> None]
Throw(message, tr) ==
  /\ pc' = "failed" /\ error' = Error(message) /\ result' = result /\ trace' = tr
Return(res, tr) ==
  /\ pc' = "done" /\ result' = res /\ error' = error /\ trace' = tr
Await(fn, arg, tr) ==
  /\ pc' = fn /\ trace' = Append(tr, Ev("call", fn, arg))
  /\ UNCHANGED <<result, error>>
Returned(fn, val) == Append(trace, Ev("ret", fn, val))
Rejected(fn) == Append(trace, Ev("throw", fn, "rejected"))

\* the call of fundJob: the signTypedData check, then createIntent is issued
FundJobCall(j, p, s, o) ==
  /\ pc = "idle"
  /\ jobId' = j /\ proposalId' = p /\ signer' = s /\ options' = o
  /\ IF ~CanSignTypedData(s)
     THEN Throw("fundJob requires a PaymentSigner with signTypedData", trace)
     ELSE Await("createIntent", [jobId |-> j, proposalId |-> p], trace)
  /\ UNCHANGED <<env, now, rng, signed, intent, escrowLocals, signature, paymentHeader,
                 txHash, start, i, feeLocals, header>>

\* faulty variant: a rejected createIntent is issued again
CreateIntentRejected_Retried ==
  /\ Await("createIntent", [jobId |-> jobId, proposalId |-> proposalId],
           Rejected("createIntent"))
  /\ UNCHANGED intent
\* the awaited createIntent rejects: the rejection leaves fundJob
CreateIntentRejected ==
  /\ Throw("createIntent rejected", Rejected("createIntent"))
  /\ UNCHANGED intent

\* createIntent completes with a rejection or with one of the responses
\* `its`; getAddress is issued
CreateIntentAnswers(its) ==
  /\ pc = "createIntent"
  /\ \E d \in Times(env.net, NetDelay) :
       now' = now + d /\ env' = [env EXCEPT !.net = Some(d)]
  /\ \/ CreateIntentRejected
     \/ \E it \in its :
          /\ intent' = it
          /\ Await("getAddress", "", Returned("createIntent", it))
  /\ UNCHANGED <<args, rng, signed, escrowLocals, signature, paymentHeader,
                 txHash, start, i, feeLocals, header>>

CreateIntentReturns == CreateIntentAnswers(Intents)

\* getAddress completes; the authorization of the escrow requirement is
\* derived and signTypedData is issued
GetAddressReturns ==
  /\ pc = "getAddress"
  /\ \E d \in Times(env.sign, SignDelay) :
       now' = now + d /\ env' = [env EXCEPT !.sign = Some(d)]
  /\ \/ /\ Throw("getAddress rejected", Rejected("getAddress"))
        /\ UNCHANGED <<rng, escrowLocals>>
     \/ LET req == intent.requirement
            tr == Returned("getAddress", "0xPayer")
        IN  IF ~BigIntOk(req.maxAmountRequired)
            THEN /\ Throw("BigInt: cannot convert maxAmountRequired", tr)
                 /\ from' = "0xPayer"
                 /\ chainId' = ChainId(req) /\ tokenAddr' = TokenAddr(req)
                 /\ UNCHANGED <<rng, value, validBefore, nonce, to>>
            ELSE /\ from' = "0xPayer"
                 /\ chainId' = ChainId(req) /\ tokenAddr' = TokenAddr(req)
                 /\ value' = BigInt(req.maxAmountRequired)
                 /\ validBefore' = ValidBeforeAt(now')
                 /\ nonce' = randomBytes32Hex(rng) /\ rng' = rng + 1
                 /\ to' = req.payTo
                 /\ Await("signTypedData",
                          TypedData(Eip712Domain(chainId', tokenAddr'),
                                    Message(from', to', value', 0, validBefore', nonce')),
                          tr)
  /\ UNCHANGED <<args, signed, intent, signature, paymentHeader,
                 txHash, start, i, feeLocals, header>>

\* the facilitator loop from its test at index k: return when the payment
\* ids are exhausted; otherwise sign requirement k's own authorization, or
\* settle with the escrow header
FacilitatorLoop(k, tr) ==
  /\ i' = k
  /\ IF ~(k < Len(AllPaymentIds(intent)))
     THEN /\ Return(FacilitatorResult(intent.paymentId), tr)
          /\ UNCHANGED <<rng, feeLocals, header>>
     ELSE LET pid == PaymentIdAt(intent, k)
              r == At(AllRequirements(intent), k)
          IN  IF NeedsOwnAuthorization(k, r)
              THEN IF ~BigIntOk(r[1].maxAmountRequired)
                   THEN /\ Throw("BigInt: cannot convert maxAmountRequired", tr)
                        /\ UNCHANGED <<rng, feeLocals, header>>
                   ELSE /\ feeValue' = BigInt(r[1].maxAmountRequired)
                        /\ feeNonce' = randomBytes32Hex(rng) /\ rng' = rng + 1
                        /\ feeTo' = r[1].payTo
                        /\ feeValidBefore' = ValidBeforeAt(now')
                        /\ header' = header
                        /\ pc' = "signFee"
                        /\ trace' = Append(tr, Ev("call", "signTypedData",
                              TypedData(Eip712Domain(chainId, tokenAddr),
                                        Message(from, feeTo', feeValue', 0,
                                                feeValidBefore', feeNonce'))))
                        /\ UNCHANGED <<result, error>>
              ELSE /\ header' = paymentHeader'
                   /\ Await("settle", [paymentId |-> pid, paymentHeader |-> header'], tr)
                   /\ UNCHANGED <<rng, feeLocals>>

\* faulty variant: at the deadline the transaction is submitted again
Poll_Resubmit(tr) ==
  IF LoopContinues(now', start', Timeout(options))
  THEN Await("confirm", [paymentId |-> intent.paymentId, txHash |-> txHash'], tr)
  ELSE Await("sendTransaction",
             [to |-> to,
              data |-> Calldata(JobKey(intent.requirement, jobId), from,
                                AgentExecutorWallet(intent.requirement)[1],
                                AgentPayoutWallet(intent.requirement)[1],
                                value, validBefore, nonce, signature),
              chainId |-> chainId],
             tr)
\* the confirmation loop from its test: confirm again, or give up
Poll(tr) ==
  IF LoopContinues(now', start', Timeout(options))
  THEN Await("confirm", [paymentId |-> intent.paymentId, txHash |-> txHash'], tr)
  ELSE Return(TimedOutResult(txHash', intent.paymentId), tr)

\* the branch on the settlement mode once the escrow authorization is
\* signed: contract mode checks the signer and the wallets and issues
\* sendTransaction, facilitator mode builds its header and enters its loop
ModeBranch(sig, tr) ==
  LET req == intent.requirement
  IN  IF IsContractMode(req)
      THEN /\ UNCHANGED <<paymentHeader, rng, i, feeLocals, header>>
           /\ IF ~CanSendTransaction(signer)
              THEN Throw("Contract escrow mode requires signer.sendTransaction", tr)
              ELSE IF ~IsSome(AgentExecutorWallet(req)) \/ ~IsSome(AgentPayoutWallet(req))
              THEN Throw("Missing agent executor/payout wallets", tr)
              ELSE Await("sendTransaction",
                         [to |-> to,
                          data |-> Calldata(JobKey(req, jobId), from,
                                            AgentExecutorWallet(req)[1],
                                            AgentPayoutWallet(req)[1],
                                            value, validBefore, nonce, sig),
                          chainId |-> chainId],
                         tr)
      ELSE /\ paymentHeader' = EscrowPayload(req, sig, from, to, value, validBefore, nonce)
           /\ FacilitatorLoop(0, tr)

\* faulty variant: the rejection is caught and the flow goes on unsigned
EscrowSignRejected_Swallowed ==
  /\ signed' = signed /\ signature' = signature
  /\ ModeBranch(signature, Rejected("signTypedData"))
\* the awaited signTypedData rejects: the rejection leaves fundJob
EscrowSignRejected ==
  /\ Throw("signTypedData rejected", Rejected("signTypedData"))
  /\ UNCHANGED <<signed, signature, paymentHeader, rng, i, feeLocals, header>>

\* the awaited signTypedData resolves with a signature
EscrowSigned ==
  LET sig == [id |-> signed + 1]
  IN  /\ signed' = signed + 1
      /\ signature' = sig
      /\ ModeBranch(sig, Returned("signTypedData", sig))

\* signTypedData of the escrow authorization completes; the mode is chosen
SignEscrowReturns ==
  /\ pc = "signTypedData"
  /\ \E d \in Times(env.sign, SignDelay) :
       now' = now + d /\ env' = [env EXCEPT !.sign = Some(d)]
  /\ UNCHANGED <<args, intent, escrowLocals, txHash, start>>
  /\ \/ EscrowSignRejected
     \/ EscrowSigned

\* sendTransaction completes; polling starts
SendTransactionReturns ==
  /\ pc = "sendTransaction"
  /\ \E d \in Times(env.sign, SignDelay) :
       now' = now + d /\ env' = [env EXCEPT !.sign = Some(d)]
  /\ UNCHANGED <<args, rng, signed, intent, escrowLocals, signature, paymentHeader,
                 i, feeLocals, header>>
  /\ \/ /\ Throw("sendTransaction rejected", Rejected("sendTransaction"))
        /\ UNCHANGED <<txHash, start>>
     \/ \E h \in TxHashes :
          /\ txHash' = h
          /\ start' = now'
          /\ Poll(Returned("sendTransaction", h))

\* faulty variant: a failing confirm call is reported as a timed-out result
ConfirmRejected_ReportedAsTimeout ==
  Return(TimedOutResult(txHash, intent.paymentId), Rejected("confirm"))
\* the awaited confirm rejects: the rejection leaves the loop and fundJob
ConfirmRejected == Throw("confirm rejected", Rejected("confirm"))

\* confirm completes: settled ends the operation, anything else sleeps
ConfirmReturns ==
  /\ pc = "confirm"
  /\ \E d \in Times(env.net, NetDelay) :
       now' = now + d /\ env' = [env EXCEPT !.net = Some(d)]
  /\ UNCHANGED <<args, rng, signed, intent, escrowLocals, signature, paymentHeader,
                 txHash, start, i, feeLocals, header>>
  /\ \/ ConfirmRejected
     \/ \E res \in ConfirmResponses :
          IF IsSettled(res)
          THEN Return(SettledResult(txHash, intent.paymentId), Returned("confirm", res))
          ELSE Await("sleep", PollInterval(options), Returned("confirm", res))

\* faulty variant: a timer of 0 ms is never scheduled
SleepReturns_ZeroTimerLost ==
  /\ pc = "sleep" /\ PollInterval(options) > 0
  /\ \E d \in Times(env.lag, TimerLag) :
       /\ now' = now + SleepTime(PollInterval(options), d)
       /\ env' = [env EXCEPT !.lag = Some(d)]
  /\ UNCHANGED <<args, rng, signed, intent, escrowLocals, signature, paymentHeader,
                 txHash, start, i, feeLocals, header>>
  /\ Poll(Returned("sleep", ""))
\* the timer of sleep fires; the loop test is evaluated again
SleepReturns ==
  /\ pc = "sleep"
  /\ \E d \in Times(env.lag, TimerLag) :
       /\ now' = now + SleepTime(PollInterval(options), d)
       /\ env' = [env EXCEPT !.lag = Some(d)]
  /\ UNCHANGED <<args, rng, signed, intent, escrowLocals, signature, paymentHeader,
                 txHash, start, i, feeLocals, header>>
  /\ Poll(Returned("sleep", ""))

\* faulty variant: the rejection is caught and the loop goes on
SettleRejected_Skipped == FacilitatorLoop(i + 1, Rejected("settle"))
\* the awaited settle rejects: the rejection leaves the loop and fundJob
SettleRejected ==
  /\ Throw("settle rejected", Rejected("settle"))
  /\ UNCHANGED <<rng, i, feeLocals, header>>

\* settle of requirement i completes; the loop goes on with i + 1
SettleReturns ==
  /\ pc = "settle"
  /\ \E d \in Times(env.net, NetDelay) :
       now' = now + d /\ env' = [env EXCEPT !.net = Some(d)]
  /\ UNCHANGED <<args, signed, intent, escrowLocals, signature, paymentHeader,
                 txHash, start>>
  /\ \/ SettleRejected
     \/ \E status \in {"settling", "settled"} :
          FacilitatorLoop(i + 1, Returned("settle", status))

\* signTypedData of requirement i > 0 completes; its header is built and
\* settle is issued
SignFeeReturns ==
  /\ pc = "signFee"
  /\ \E d \in Times(env.sign, SignDelay) :
       now' = now + d /\ env' = [env EXCEPT !.sign = Some(d)]
  /\ UNCHANGED <<args, rng, intent, escrowLocals, signature, paymentHeader,
                 txHash, start, i, feeLocals>>
  /\ \/ /\ Throw("signTypedData rejected", Rejected("signTypedData"))
        /\ UNCHANGED <<signed, header>>
     \/ LET feeSig == [id |-> signed + 1]
        IN  /\ signed' = signed + 1
            /\ header' = FeePayload(intent.requirement, feeSig, from, feeTo, feeValue,
                                    validBefore, feeValidBefore, feeNonce)
            /\ Await("settle",
                     [paymentId |-> PaymentIdAt(intent, i), paymentHeader |-> header'],
                     Returned("signTypedData", feeSig))

JobIds == {"job1"}
ProposalIds == {"prop1"}

Next ==
  \/ \E j \in JobIds, p \in ProposalIds, s \in Signers, o \in OptionsValues :
        FundJobCall(j, p, s, o) /\ UNCHANGED restVars
  \/ CreateIntentReturns /\ UNCHANGED restVars
  \/ GetAddressReturns /\ UNCHANGED restVars
  \/ SignEscrowReturns /\ UNCHANGED restVars
  \/ SendTransactionReturns /\ UNCHANGED restVars
  \/ ConfirmReturns /\ UNCHANGED restVars
  \/ SleepReturns /\ UNCHANGED restVars
  \/ SettleReturns /\ UNCHANGED restVars
  \/ SignFeeReturns /\ UNCHANGED restVars

Spec == Init /\ [][Next]_vars

\* ------------------------------------------------------------------------
\* fundJob on requirements whose network and asset fields vary
\* ------------------------------------------------------------------------
NetNoColon == <<"b", "a", "s", "e">>
NetEmptySuffix == <<"e", "i", "p", "1", "5", "5", ":">>
NetNonNumeric == <<"e", "i", "p", "1", "5", "5", ":", "x", "1">>
NetworkValues ==
  {None, Some(Net8453), Some(Net10), Some(NetNoColon), Some(NetEmptySuffix),
   Some(NetNonNumeric)}

AssetOther == <<"b", "/", "e", "r", "c", "2", "0", ":", "0", "x", "a", "b", "c">>
AssetNoMarker == <<"u", "s", "d", "c">>
AssetEmptyAddress == <<"b", "/", "e", "r", "c", "2", "0", ":">>
AssetNoSlash == <<"e", "r", "c", "2", "0", ":", "0", "x", "a", "b", "c">>
AssetValues ==
  {None, Some(AssetUSDC), Some(AssetOther), Some(AssetNoMarker),
   Some(AssetEmptyAddress), Some(AssetNoSlash)}

\* a well-formed requirement but for its network and asset
DerivationRequirement(net, asset, payTo, extra) ==
  [Requirement(net, Some(AmountEscrow), payTo, extra) EXCEPT !.asset = asset]

\* responses with such a requirement: one facilitator requirement, escrow
\* plus a plain fee, or a contract-mode requirement
DerivationIntents ==
  UNION { LET f == DerivationRequirement(net, asset, EscrowPayTo, None)
              c == DerivationRequirement(net, asset, EscrowPayTo,
                     Some([NoExtraFields EXCEPT !.contractMode = Some(TRUE),
                                                !.agentExecutorWallet = Some("0xExec")]))
          IN  { Intent(f, None, None),
                Intent(f, Some(<<"pay0", "pay1">>), Some(<<f, PlainFeeRequirement>>)),
                Intent(c, None, None) } :
          net \in NetworkValues, asset \in AssetValues }

FullSigner == [signTypedData |-> TRUE, sendTransaction |-> TRUE]
ShortPolling ==
  Some([pollIntervalMs |-> Some(PollOverride), timeoutMs |-> Some(TimeoutOverride)])

DeriveNext ==
  \/ \E j \in JobIds, p \in ProposalIds :
        FundJobCall(j, p, FullSigner, ShortPolling) /\ UNCHANGED restVars
  \/ CreateIntentAnswers(DerivationIntents) /\ UNCHANGED restVars
  \/ GetAddressReturns /\ UNCHANGED restVars
  \/ SignEscrowReturns /\ UNCHANGED restVars
  \/ SendTransactionReturns /\ UNCHANGED restVars
  \/ ConfirmReturns /\ UNCHANGED restVars
  \/ SleepReturns /\ UNCHANGED restVars
  \/ SettleReturns /\ UNCHANGED restVars
  \/ SignFeeReturns /\ UNCHANGED restVars

DeriveSpec == Init /\ [][DeriveNext]_vars

\* ------------------------------------------------------------------------
\* fundJob under a scheduler that resumes it: every awaited call returns or
\* fails, and the clock advances in every round of the confirmation loop
\* ------------------------------------------------------------------------
\* polling options, a pollIntervalMs of 0 among them
LiveOptions ==
  { None,
    Some([pollIntervalMs |-> Some(PollOverride), timeoutMs |-> Some(TimeoutOverride)]),
    Some([pollIntervalMs |-> Some(0), timeoutMs |-> Some(TimeoutOverride)]),
    Some([pollIntervalMs |-> Some(0), timeoutMs |-> Some(0)]) }

\* the collaborators' timing: a confirm call or a timer takes time
LiveEnvs ==
  { e \in [net : {Some(0), Some(NetDelay)}, sign : {Some(0), Some(SignDelay)},
           lag : {Some(0), Some(TimerLag)}] :
      e.net[1] + e.lag[1] > 0 }

\* a contract-mode response, and facilitator responses with every length
\* of the paymentIds array
LiveIntents ==
  LET f == Requirement(Some(Net8453), Some(AmountEscrow), EscrowPayTo, None)
      c == Requirement(Some(Net8453), Some(AmountEscrow), EscrowPayTo,
             Some([NoExtraFields EXCEPT !.contractMode = Some(TRUE),
                                        !.agentExecutorWallet = Some("0xExec")]))
  IN  { Intent(c, None, None) } \cup
      { Intent(f, ids, rs) :
          ids \in {None} \cup {Some(q) : q \in PaymentIdArrays},
          rs \in {None} \cup {Some(q) : q \in RequirementArrays(f)} }

LiveInit ==
  /\ \E e \in LiveEnvs : FundJobIdleIn(e)
  /\ UtilIdle /\ ConcIdle /\ AuthIdle

LiveNext ==
  \/ \E j \in JobIds, p \in ProposalIds, o \in LiveOptions :
        FundJobCall(j, p, FullSigner, o) /\ UNCHANGED restVars
  \/ CreateIntentAnswers(LiveIntents) /\ UNCHANGED restVars
  \/ GetAddressReturns /\ UNCHANGED restVars
  \/ SignEscrowReturns /\ UNCHANGED restVars
  \/ SendTransactionReturns /\ UNCHANGED restVars
  \/ ConfirmReturns /\ UNCHANGED restVars
  \/ SleepReturns /\ UNCHANGED restVars
  \/ SettleReturns /\ UNCHANGED restVars
  \/ SignFeeReturns /\ UNCHANGED restVars

\* the event loop resumes a continuation whose awaited call has completed
LiveSpec == LiveInit /\ [][LiveNext]_vars /\ WF_vars(LiveNext)

\* ------------------------------------------------------------------------
\* Two fundJob operations for different jobs, interleaved at their awaits.
\* The parameters and locals of fundJob belong to one call; the clock, the
\* random source and the collaborators are the same for both.
\* ------------------------------------------------------------------------
\* the parameters and locals of the operation that is running
Locals ==
  [pc |-> pc, jobId |-> jobId, proposalId |-> proposalId, signer |-> signer,
   options |-> options, intent |-> intent, from |-> from,
   chainId |-> chainId, tokenAddr |-> tokenAddr, value |-> value,
   validBefore |-> validBefore, nonce |-> nonce, to |-> to,
   signature |-> signature, paymentHeader |-> paymentHeader,
   txHash |-> txHash, start |-> start, i |-> i, feeValue |-> feeValue,
   feeNonce |-> feeNonce, feeTo |-> feeTo, feeValidBefore |-> feeValidBefore,
   header |-> header, result |-> result, error |-> error, trace |-> trace]

\* the job each operation funds, and its per-call polling options
JobOf(k) == IF k = 1 THEN "job1" ELSE "job2"
OptionsOf(k) ==
  IF k = 1 THEN ShortPolling
  ELSE Some([pollIntervalMs |-> None, timeoutMs |-> Some(TimeoutOverride)])

\* what createIntent answers for job j: a contract-mode requirement, or a
\* facilitator batch of escrow and fee, under payment ids of that job
ConcIntents(j) ==
  LET pid == IF j = "job1" THEN "pay0" ELSE "pay2"
      feeId == IF j = "job1" THEN "pay1" ELSE "pay3"
      f == Requirement(Some(Net8453), Some(AmountEscrow), EscrowPayTo, None)
      c == Requirement(Some(Net8453), Some(AmountEscrow), EscrowPayTo,
             Some([NoExtraFields EXCEPT !.contractMode = Some(TRUE),
                                        !.agentExecutorWallet = Some("0xExec")]))
  IN  { [Intent(c, None, None) EXCEPT !.paymentId = pid],
        [Intent(f, Some(<<pid, feeId>>), Some(<<f, PlainFeeRequirement>>))
           EXCEPT !.paymentId = pid] }

\* faulty variant: the polling options are one setting shared by all calls
Switch_SharedOptions ==
  /\ running' = 3 - running
  /\ other' = Locals
  /\ pc' = other.pc /\ jobId' = other.jobId /\ proposalId' = other.proposalId
  /\ signer' = other.signer /\ intent' = other.intent /\ from' = other.from
  /\ chainId' = other.chainId /\ tokenAddr' = other.tokenAddr
  /\ value' = other.value /\ validBefore' = other.validBefore
  /\ nonce' = other.nonce /\ to' = other.to /\ signature' = other.signature
  /\ paymentHeader' = other.paymentHeader /\ txHash' = other.txHash
  /\ start' = other.start /\ i' = other.i /\ feeValue' = other.feeValue
  /\ feeNonce' = other.feeNonce /\ feeTo' = other.feeTo
  /\ feeValidBefore' = other.feeValidBefore /\ header' = other.header
  /\ result' = other.result /\ error' = other.error /\ trace' = other.trace
  /\ options' = options
  /\ UNCHANGED <<env, now, rng, signed, utilVars, authVars>>
\* the running operation stays suspended at its await (or has not started,
\* or has ended) and the other one is resumed with its own locals
Switch ==
  /\ running' = 3 - running
  /\ other' = Locals
  /\ pc' = other.pc /\ jobId' = other.jobId /\ proposalId' = other.proposalId
  /\ signer' = other.signer /\ options' = other.options
  /\ intent' = other.intent /\ from' = other.from /\ chainId' = other.chainId
  /\ tokenAddr' = other.tokenAddr /\ value' = other.value
  /\ validBefore' = other.validBefore /\ nonce' = other.nonce
  /\ to' = other.to /\ signature' = other.signature
  /\ paymentHeader' = other.paymentHeader /\ txHash' = other.txHash
  /\ start' = other.start /\ i' = other.i /\ feeValue' = other.feeValue
  /\ feeNonce' = other.feeNonce /\ feeTo' = other.feeTo
  /\ feeValidBefore' = other.feeValidBefore /\ header' = other.header
  /\ result' = other.result /\ error' = other.error /\ trace' = other.trace
  /\ UNCHANGED <<env, now, rng, signed, utilVars, authVars>>

ConcInit ==
  /\ FundJobIdleIn([net |-> Some(NetDelay), sign |-> Some(SignDelay), lag |-> Some(0)])
  /\ UtilIdle /\ ConcIdle /\ AuthIdle

ConcNext ==
  \/ FundJobCall(JobOf(running), "prop1", FullSigner, OptionsOf(running))
        /\ UNCHANGED restVars
  \/ CreateIntentAnswers(ConcIntents(jobId)) /\ UNCHANGED restVars
  \/ GetAddressReturns /\ UNCHANGED restVars
  \/ SignEscrowReturns /\ UNCHANGED restVars
  \/ SendTransactionReturns /\ UNCHANGED restVars
  \/ ConfirmReturns /\ UNCHANGED restVars
  \/ SleepReturns /\ UNCHANGED restVars
  \/ SettleReturns /\ UNCHANGED restVars
  \/ SignFeeReturns /\ UNCHANGED restVars
  \/ Switch

ConcSpec == ConcInit /\ [][ConcNext]_vars

\* ------------------------------------------------------------------------
\* The payment utilities and the signature's v, applied on their own
\* ------------------------------------------------------------------------
RECURSIVE Pow10(_)
Pow10(e) == IF e = 0 THEN 1 ELSE 10 * Pow10(e - 1)

\* amounts in base units, of either sign
Amounts ==
  { sg * m * Pow10(e) : sg \in {1, 0 - 1}, m \in 0..MaxMantissa, e \in 0..MaxExponent }

\* outputs of the signature parser: v with or without yParity, v as a raw
\* 0/1 recovery value, or yParity alone
ParsedSignatures ==
  { [v |-> Some(27), yParity |-> Some(0)], [v |-> Some(28), yParity |-> Some(1)],
    [v |-> Some(27), yParity |-> None], [v |-> Some(28), yParity |-> None],
    [v |-> Some(0), yParity |-> None], [v |-> Some(1), yParity |-> None],
    [v |-> None, yParity |-> Some(0)], [v |-> None, yParity |-> Some(1)] }

\* formatUSDC(baseUnits)
formatUSDC(units) ==
  LET whole == Quotient(units, UsdcScale)
      fraction == Remainder(units, UsdcScale)
  IN  IF fraction = 0 THEN BigIntToStringSigned(whole)
      ELSE BigIntToStringSigned(whole) \o <<".">>
           \o StripTrailingZeros(PadStart(BigIntToStringSigned(fraction), UsdcDecimals))

\* the string parseUSDC hands to BigInt: whole + paddedFraction
ParseUSDCDigits(str) ==
  LET parts == Split(str, <<".">>)
      whole == parts[1]
      fraction == OrElse(At(parts, 1), <<>>)
  IN  whole \o SliceTo(PadEnd(fraction, UsdcDecimals), UsdcDecimals)

\* parseUSDC(amount): the value, or the SyntaxError of BigInt
parseUSDC(str) ==
  IF BigIntParses(ParseUSDCDigits(str))
  THEN [threw |-> FALSE, value |-> BigIntValue(ParseUSDCDigits(str))]
  ELSE [threw |-> TRUE, value |-> 0]

\* Number(parsed.v ?? (parsed.yParity === 0 ? 27n : 28n))
SignatureV(sig) ==
  IF IsSome(sig.v) THEN sig.v[1]
  ELSE IF sig.yParity = Some(0) THEN 27 ELSE 28

UtilInit ==
  /\ FundJobIdle /\ ConcIdle /\ AuthIdle
  /\ baseUnits \in Amounts /\ formatted = None /\ reparsed = None
  /\ parsed \in ParsedSignatures /\ sigV = None

FormatAmount ==
  /\ formatted = None
  /\ formatted' = Some(formatUSDC(baseUnits))
  /\ UNCHANGED <<fundJobVars, concVars, authVars, baseUnits, reparsed, parsed, sigV>>

ParseFormatted ==
  /\ formatted # None /\ reparsed = None
  /\ reparsed' = Some(parseUSDC(formatted[1]))
  /\ UNCHANGED <<fundJobVars, concVars, authVars, baseUnits, formatted, parsed, sigV>>

DeriveV ==
  /\ sigV = None
  /\ sigV' = Some(SignatureV(parsed))
  /\ UNCHANGED <<fundJobVars, concVars, authVars, baseUnits, formatted, reparsed, parsed>>

UtilNext == FormatAmount \/ ParseFormatted \/ DeriveV

UtilSpec == UtilInit /\ [][UtilNext]_vars

\* ------------------------------------------------------------------------
\* AuthModule: verify, logout, isAuthenticated, setToken, getToken, me
\* ------------------------------------------------------------------------
MaxAuthEvents == 5

\* token strings; the empty string is a string like any other
TokenStrings == {"", "jwt1", "jwt2"}
\* config.token of the HttpClient's constructor
ConfigTokens == {None, Some("jwt1")}
\* AuthVerifyResponse.token, or a response without the field
VerifyResponses == {None} \cup {Some(t) : t \in TokenStrings}

\* the truthiness of a string | undefined
Truthy(t) == IsSome(t) /\ t[1] # ""

\* the Authorization header of a request: if (this.token) `Bearer ${token}`
AuthorizationHeader(t) == IF Truthy(t) THEN Some(<<"Bearer", t[1]>>) ELSE None

AuthEv(op, val) == [op |-> op, val |-> val]
AuthCanAct == Len(authTrace) < MaxAuthEvents

\* HttpClient.request up to its await of fetch: the headers are built from
\* the token stored now, and the request is in flight
SendRequest(path) ==
  /\ inFlight' = inFlight \cup {path}
  /\ authTrace' = Append(authTrace, AuthEv("request", [path |-> path,
                            authorization |-> AuthorizationHeader(token)]))

\* verify up to its await: the POST of /api/auth/verify is sent
VerifyCall ==
  /\ AuthCanAct /\ "verify" \notin inFlight
  /\ SendRequest("verify")
  /\ UNCHANGED token

\* faulty variant: the token of the response is stored whatever it is
VerifyResolved_StoresAnything(res) ==
  /\ token' = res
  /\ authTrace' = Append(authTrace, AuthEv("verify returned", res))
\* the POST resolves: if (response.token) this.http.setToken(response.token)
VerifyResolved(res) ==
  /\ token' = IF Truthy(res) THEN res ELSE token
  /\ authTrace' = Append(authTrace, AuthEv("verify returned", res))

\* the POST rejects: the rejection leaves verify
VerifyRejected ==
  /\ token' = token
  /\ authTrace' = Append(authTrace, AuthEv("verify threw", None))

\* the awaited POST of verify completes
VerifyCompletes ==
  /\ AuthCanAct /\ "verify" \in inFlight
  /\ inFlight' = inFlight \ {"verify"}
  /\ \/ \E res \in VerifyResponses : VerifyResolved(res)
     \/ VerifyRejected

\* logout up to its await: the POST of /api/auth/logout is sent
LogoutCall ==
  /\ AuthCanAct /\ "logout" \notin inFlight
  /\ SendRequest("logout")
  /\ UNCHANGED token

\* the POST resolves: this.http.setToken(undefined)
LogoutResolved ==
  /\ token' = None
  /\ authTrace' = Append(authTrace, AuthEv("logout returned", None))

\* faulty variant: the token is cleared although the request failed
LogoutRejected_Clears ==
  /\ token' = None
  /\ authTrace' = Append(authTrace, AuthEv("logout threw", None))
\* the POST rejects: the rejection leaves logout before setToken
LogoutRejected ==
  /\ token' = token
  /\ authTrace' = Append(authTrace, AuthEv("logout threw", None))

\* the awaited POST of logout completes
LogoutCompletes ==
  /\ AuthCanAct /\ "logout" \in inFlight
  /\ inFlight' = inFlight \ {"logout"}
  /\ \/ LogoutResolved
     \/ LogoutRejected

\* AuthModule.setToken(t), with HttpClient.setToken
SetToken(t) ==
  /\ AuthCanAct
  /\ token' = Some(t)
  /\ authTrace' = Append(authTrace, AuthEv("setToken", Some(t)))
  /\ UNCHANGED inFlight

\* !!this.http.getToken()
isAuthenticated == Truthy(token)

IsAuthenticatedCall ==
  /\ AuthCanAct
  /\ authTrace' = Append(authTrace, AuthEv("isAuthenticated", isAuthenticated))
  /\ UNCHANGED <<token, inFlight>>

\* AuthModule.getToken(), with HttpClient.getToken
GetTokenCall ==
  /\ AuthCanAct
  /\ authTrace' = Append(authTrace, AuthEv("getToken", token))
  /\ UNCHANGED <<token, inFlight>>

\* me(): the GET of /api/auth/me is sent; its answer changes nothing
MeCall ==
  /\ AuthCanAct /\ "me" \notin inFlight
  /\ SendRequest("me")
  /\ UNCHANGED token

\* the state after construction: new HttpClient(config), new AuthModule(http)
AuthInit ==
  /\ FundJobIdle /\ UtilIdle /\ ConcIdle
  /\ token \in ConfigTokens /\ inFlight = {}
  /\ authTrace = <<AuthEv("constructed", token)>>

auxVars == <<fundJobVars, utilVars, concVars>>

AuthNext ==
  \/ VerifyCall /\ UNCHANGED auxVars
  \/ VerifyCompletes /\ UNCHANGED auxVars
  \/ LogoutCall /\ UNCHANGED auxVars
  \/ LogoutCompletes /\ UNCHANGED auxVars
  \/ \E t \in TokenStrings : SetToken(t) /\ UNCHANGED auxVars
  \/ IsAuthenticatedCall /\ UNCHANGED auxVars
  \/ GetTokenCall /\ UNCHANGED auxVars
  \/ MeCall /\ UNCHANGED auxVars

AuthSpec == AuthInit /\ [][AuthNext]_vars

\* ------------------------------------------------------------------------
\* Reading the call capture
\* ------------------------------------------------------------------------
IsCall(k, fn) == trace[k].kind = "call" /\ trace[k].fn = fn
IsRet(k, fn) == trace[k].kind = "ret" /\ trace[k].fn = fn
IsThrow(k, fn) == trace[k].kind = "throw" /\ trace[k].fn = fn
CallsOf(fn) == {k \in DOMAIN trace : IsCall(k, fn)}
RetsOf(fn) == {k \in DOMAIN trace : IsRet(k, fn)}
ThrowsOf(fn) == {k \in DOMAIN trace : IsThrow(k, fn)}
Before(S, k) == {m \in S : m < k}
Finished == pc \in {"done", "failed"}

\* ------------------------------------------------------------------------
\* Claims
\* ------------------------------------------------------------------------
NetworkCalls == {"createIntent", "settle", "confirm", "sendTransaction"}

\* C1: when the signer passed to fundJob has no signTypedData function, the
\* operation has failed with an error and no createIntent, settle, confirm
\* or sendTransaction call (indeed no collaborator call at all) was made.
C1_NoSignTypedDataFailsFast ==
  (pc # "idle" /\ ~signer.signTypedData) =>
    /\ pc = "failed"
    /\ error.message = "fundJob requires a PaymentSigner with signTypedData"
    /\ \A k \in DOMAIN trace : trace[k].fn \notin NetworkCalls
    /\ trace = <<>>
C1_Witness == pc = "failed" /\ ~signer.signTypedData /\ signer.sendTransaction

\* C2: settle calls are made in index order and one at a time: the n-th
\* settle call carries the n-th payment id of the batch, every collaborator
\* call is completed before the next one is issued, and whenever a settle
\* call or the signing of a later requirement is issued, every earlier
\* settle call has returned successfully.
C2_SettleInIndexOrder ==
  \A k \in DOMAIN trace :
    /\ (trace[k].kind = "call" /\ k < Len(trace)) =>
         /\ trace[k + 1].kind \in {"ret", "throw"}
         /\ trace[k + 1].fn = trace[k].fn
    /\ IsCall(k, "settle") =>
         LET n == Cardinality(Before(CallsOf("settle"), k))
         IN  /\ n < Len(OrElse(intent.paymentIds, <<intent.paymentId>>))
             /\ trace[k].arg.paymentId =
                  OrElse(intent.paymentIds, <<intent.paymentId>>)[n + 1]
             /\ Cardinality(Before(RetsOf("settle"), k)) = n
    /\ IsCall(k, "signTypedData") =>
         Cardinality(Before(RetsOf("settle"), k))
           = Cardinality(Before(CallsOf("settle"), k))
C2_Witness ==
  /\ pc = "done"
  /\ Cardinality(CallsOf("settle")) = 3
  /\ Cardinality(CallsOf("signTypedData")) = 2
  /\ \E k \in CallsOf("settle") : trace[k].arg.paymentId = "pay1"

\* C3: every sendTransaction call comes after a signTypedData call that
\* returned a signature, and carries that signature; after a signTypedData
\* call that failed there is no sendTransaction call.
C3_SendAfterSigned ==
  /\ \A k \in CallsOf("sendTransaction") :
       \E m \in RetsOf("signTypedData") : m < k /\ trace[k].arg.data.vrs = trace[m].arg
  /\ ThrowsOf("signTypedData") # {} => CallsOf("sendTransaction") = {}
C3_Witness == pc = "sendTransaction" /\ CallsOf("sendTransaction") # {}
C3_WitnessRejected ==
  /\ pc = "failed" /\ ThrowsOf("signTypedData") # {}
  /\ IsContractMode(intent.requirement) /\ signer.sendTransaction

Settled == Some([status |-> "settled"])
\* options?.pollIntervalMs ?? 5000 and options?.timeoutMs ?? 180000
GivenPollInterval ==
  IF IsSome(options) /\ IsSome(options[1].pollIntervalMs)
  THEN options[1].pollIntervalMs[1] ELSE DefaultPollIntervalMs
GivenTimeout ==
  IF IsSome(options) /\ IsSome(options[1].timeoutMs)
  THEN options[1].timeoutMs[1] ELSE DefaultTimeoutMs
AuthorizationOf(k) == trace[k].arg.paymentHeader.payload.authorization
SignatureOf(k) == trace[k].arg.paymentHeader.payload.signature

\* C4: once sendTransaction has returned a hash, however fundJob completes
\* (settled, timed out, or through a failing confirm call), the caller is
\* given that hash: in the result, or in the error.
C4_HashAlwaysDelivered ==
  \A k \in RetsOf("sendTransaction") :
    Finished =>
      \/ pc = "done" /\ result.txHash = Some(trace[k].arg)
      \/ pc = "failed" /\ error.txHash = Some(trace[k].arg)

\* C5: any two settle calls of one operation carry different nonces and
\* different signatures.
C5_NoncesNeverShared ==
  \A k, m \in CallsOf("settle") :
    k # m => /\ AuthorizationOf(k).nonce # AuthorizationOf(m).nonce
             /\ SignatureOf(k) # SignatureOf(m)

\* C6: the authorization carried in the header of every settle call is the
\* message that was passed to the signTypedData call which returned the
\* signature carried in the same header.
C6_SignatureBoundToAuthorization ==
  \A k \in CallsOf("settle") :
    \E m \in CallsOf("signTypedData") :
      /\ m + 1 < k
      /\ IsRet(m + 1, "signTypedData")
      /\ trace[m + 1].arg = SignatureOf(k)
      /\ LET msg == trace[m].arg.message
             a == AuthorizationOf(k)
         IN  /\ a.from = msg.from
             /\ a.to = msg.to
             /\ a.value = BigIntToString(msg.value)
             /\ a.validAfter = BigIntToString(msg.validAfter)
             /\ a.validBefore = BigIntToString(msg.validBefore)
             /\ a.nonce = msg.nonce

\* C7: in contract mode, as long as no confirm call has reported "settled"
\* (and none has failed), fundJob has not thrown, and when it has returned,
\* it has returned {success:false, txHash, paymentId, mode:"contract"} with
\* the hash sendTransaction returned.
C7_TimeoutReturnsHash ==
  \A k \in RetsOf("sendTransaction") :
    (ThrowsOf("confirm") = {} /\ \A m \in RetsOf("confirm") : trace[m].arg # Settled) =>
      /\ pc # "failed"
      /\ pc = "done" =>
           result = [success |-> FALSE, txHash |-> Some(trace[k].arg),
                     paymentId |-> intent.paymentId, mode |-> "contract"]
C7_Witness ==
  /\ pc = "done" /\ ~result.success
  /\ Cardinality(RetsOf("confirm")) >= 2
  /\ result.txHash = Some("0xTxHash")

\* C8: a confirm call that returns "settled" is the last thing the poller
\* does: fundJob has returned {success:true, txHash, paymentId,
\* mode:"contract"}, with no further confirm call and no further sleep.
\* After any other answer the next thing is a sleep of pollIntervalMs, and
\* every confirm call but the first follows directly on a finished sleep.
C8_StopsAtFirstSettled ==
  /\ \A k \in RetsOf("confirm") :
       IF trace[k].arg = Settled
       THEN /\ k = Len(trace)
            /\ pc = "done"
            /\ \E h \in RetsOf("sendTransaction") :
                 result = [success |-> TRUE, txHash |-> Some(trace[h].arg),
                           paymentId |-> intent.paymentId, mode |-> "contract"]
       ELSE /\ k < Len(trace)
            /\ trace[k + 1] = Ev("call", "sleep", GivenPollInterval)
  /\ \A k \in CallsOf("confirm") :
       Before(CallsOf("confirm"), k) # {} => IsRet(k - 1, "sleep")
C8_Witness ==
  /\ pc = "done" /\ result.success /\ result.mode = "contract"
  /\ Cardinality(RetsOf("sleep")) >= 1

\* C9: when fundJob returns success in contract mode after k non-settled
\* answers, it has made exactly k + 1 confirm calls and slept exactly k
\* times, and at least k * pollIntervalMs have passed since polling started;
\* and it gives up only at a loop test at which the deadline has elapsed, so
\* a confirm call that is due before the deadline is always made.
C9_SuccessAfterKSleeps ==
  (pc = "done" /\ result.mode = "contract") =>
    LET pending == Cardinality({m \in RetsOf("confirm") : trace[m].arg # Settled})
    IN  IF result.success
        THEN /\ Cardinality(CallsOf("confirm")) = pending + 1
             /\ Cardinality(RetsOf("confirm")) = pending + 1
             /\ Cardinality(CallsOf("sleep")) = pending
             /\ Cardinality(RetsOf("sleep")) = pending
             /\ now - start >= pending * GivenPollInterval
        ELSE /\ now - start >= GivenTimeout
             /\ Cardinality(RetsOf("confirm")) = pending
\* the scenario of the specification: defaults, settled on the third call
C9_Witness ==
  /\ pc = "done" /\ result.success /\ result.mode = "contract"
  /\ options = None
  /\ Cardinality(RetsOf("sleep")) = 2
  /\ now - start = 2 * DefaultPollIntervalMs

\* C10: with instantaneous confirm calls, punctual timers and a positive
\* pollIntervalMs, fundJob in contract mode returns no later than timeoutMs
\* after polling started.
C10_ReturnsWithinTimeout ==
  (/\ pc = "done" /\ result.mode = "contract"
   /\ env.net = Some(0) /\ env.lag \in {None, Some(0)}
   /\ GivenPollInterval > 0)
  => now - start <= GivenTimeout

\* C11: a settle call that fails is the last collaborator call of the
\* operation: fundJob has failed with an error and returned no result, no
\* signing and no settle call follows for a later requirement, and the
\* failed call is not issued again.
C11_SettleFailureEndsBatch ==
  \A k \in ThrowsOf("settle") :
    /\ k = Len(trace)
    /\ IsCall(k - 1, "settle")
    /\ pc = "failed"
    /\ error.message = "settle rejected"
    /\ result = NoResult
    /\ Cardinality(ThrowsOf("settle")) = 1
C11_Witness ==
  /\ pc = "failed" /\ ThrowsOf("settle") # {}
  /\ Cardinality(CallsOf("settle")) = 2
  /\ Len(AllPaymentIds(intent)) = 3
  /\ Len(AllRequirements(intent)) = 2

\* C12: in contract mode with a signer that has no sendTransaction function
\* fundJob never succeeds, and signTypedData is not called in the operation.
C12_SendCheckBeforeSigning ==
  (/\ pc \notin {"idle", "createIntent"}
   /\ IsContractMode(intent.requirement)
   /\ ~signer.sendTransaction) =>
    /\ pc # "done"
    /\ CallsOf("signTypedData") = {}

\* extra.contractMode of the first requirement, as the response carries it
FirstRequirementContractMode ==
  /\ IsSome(intent.requirement.extra)
  /\ intent.requirement.extra[1].contractMode = Some(TRUE)

\* C13: the mode follows the first requirement's extra.contractMode for the
\* whole operation and the two paths exclude each other: an operation with
\* a settle call has no sendTransaction and no confirm call and its first
\* requirement is not flagged contractMode, an operation with a
\* sendTransaction or confirm call has no settle call and its first
\* requirement is flagged, and the result names that mode, whatever the
\* later requirements carry.
C13_ModeFixedAndExclusive ==
  /\ CallsOf("settle") # {} =>
       /\ CallsOf("sendTransaction") = {} /\ CallsOf("confirm") = {}
       /\ ~FirstRequirementContractMode
  /\ (CallsOf("sendTransaction") # {} \/ CallsOf("confirm") # {}) =>
       /\ CallsOf("settle") = {}
       /\ FirstRequirementContractMode
  /\ pc = "done" =>
       result.mode = IF FirstRequirementContractMode THEN "contract" ELSE "facilitator"
\* a facilitator batch whose second requirement is flagged contractMode
C13_Witness ==
  /\ pc = "done" /\ result.mode = "facilitator"
  /\ Cardinality(CallsOf("settle")) = 2
  /\ Cardinality(CallsOf("signTypedData")) = 2
  /\ IsSome(intent.requirements) /\ Len(intent.requirements[1]) = 2
  /\ IsSome(intent.requirements[1][2].extra)
  /\ intent.requirements[1][2].extra[1].contractMode = Some(TRUE)
\* a contract operation whose intent lists a second, unflagged requirement
C13_WitnessContract ==
  /\ pc = "done" /\ result.mode = "contract"
  /\ IsSome(intent.requirements) /\ Len(intent.requirements[1]) = 2
  /\ intent.requirements[1][2].extra = None

\* the payment ids of the response: its paymentIds array, or its paymentId
GivenPaymentIds == OrElse(intent.paymentIds, <<intent.paymentId>>)
\* the payment ids of the settle calls of the capture, in order
IsSettleCall(e) == e.kind = "call" /\ e.fn = "settle"
SettledIds ==
  LET calls == SelectSeq(trace, IsSettleCall)
  IN  [k \in 1..Len(calls) |-> calls[k].arg.paymentId]

\* C14: when the first requirement carries no extra.contractMode the
\* operation never calls sendTransaction or confirm, whatever the signer
\* has, and when it completes it has made exactly one settle call per
\* payment id, in order, and returned {success:true, mode:"facilitator"};
\* for a response with a single requirement (no arrays) that is exactly one
\* signTypedData call and exactly one settle call, for the intent's paymentId.
C14_FacilitatorPath ==
  (/\ pc \notin {"idle", "createIntent"}
   /\ ExtraField(intent.requirement, "contractMode") = None) =>
    /\ CallsOf("sendTransaction") = {} /\ CallsOf("confirm") = {}
    /\ pc = "done" =>
         /\ result = [success |-> TRUE, txHash |-> None,
                      paymentId |-> intent.paymentId, mode |-> "facilitator"]
         /\ SettledIds = GivenPaymentIds
         /\ (intent.paymentIds = None) =>
              /\ Cardinality(CallsOf("signTypedData")) = 1
              /\ SettledIds = <<intent.paymentId>>
\* the scenario of the specification, with a signer that cannot send
C14_Witness ==
  /\ pc = "done" /\ result.mode = "facilitator"
  /\ intent.requirement.extra = None
  /\ intent.paymentIds = None /\ intent.requirements = None
  /\ ~signer.sendTransaction
  /\ Cardinality(CallsOf("settle")) = 1
\* a batch of three payment ids
C14_WitnessBatch ==
  /\ pc = "done" /\ result.mode = "facilitator"
  /\ intent.requirement.extra = None
  /\ Len(SettledIds) = 3

\* C15: in contract mode the operation never makes a second signTypedData
\* call nor a second sendTransaction call, also when the response lists
\* several requirements, and everything sent or confirmed rests on the one
\* signature: a sendTransaction call is preceded by exactly one
\* signTypedData call, and a completed operation made exactly one of each.
C15_OneAuthorizationOneTransaction ==
  (pc \notin {"idle", "createIntent"} /\ FirstRequirementContractMode) =>
    /\ Cardinality(CallsOf("signTypedData")) <= 1
    /\ Cardinality(CallsOf("sendTransaction")) <= 1
    /\ CallsOf("sendTransaction") # {} =>
         Cardinality(RetsOf("signTypedData")) = 1
    /\ pc = "done" =>
         /\ Cardinality(CallsOf("signTypedData")) = 1
         /\ Cardinality(CallsOf("sendTransaction")) = 1
\* escrow plus fee in contract mode, polled to the deadline
C15_Witness ==
  /\ pc = "done" /\ result.mode = "contract" /\ ~result.success
  /\ IsSome(intent.requirements) /\ Len(intent.requirements[1]) = 2
  /\ IsSome(intent.paymentIds) /\ Len(intent.paymentIds[1]) = 2
  /\ Cardinality(CallsOf("signTypedData")) = 1
  /\ Cardinality(CallsOf("sendTransaction")) = 1

\* C16: when fundJob returns on the facilitator path, the result is
\* {success:true, mode:"facilitator"} without txHash, and its paymentId is
\* the payment id that was passed to the first settle call of the operation.
C16_ResultNamesFirstSettledId ==
  (pc = "done" /\ result.mode = "facilitator") =>
    /\ result.success
    /\ result.txHash = None
    /\ SettledIds # <<>>
    /\ result.paymentId = SettledIds[1]

\* C17: the authorization submitted for a requirement carries that
\* requirement's own expiry: whenever a settle call is issued on the return
\* of the signTypedData call of a requirement, the authorization in its
\* header has validAfter = 0 and validBefore = the clock reading, in
\* seconds, at which that signTypedData call was made, plus 300.
C17_OwnExpiryAtSignTime ==
  [][ (pc \in {"signTypedData", "signFee"} /\ pc' = "settle") =>
        LET a == header'.payload.authorization
        IN  /\ a.validAfter = <<"0">>
            /\ a.validBefore = BigIntToString((now \div 1000) + 300) ]_vars

\* the wallet fields of the first requirement's extra, as the response carries them
GivenWallet(f) ==
  IF IsSome(intent.requirement.extra) THEN intent.requirement.extra[1][f] ELSE None
GivenExecutor ==
  IF IsSome(GivenWallet("agentExecutorWallet"))
  THEN GivenWallet("agentExecutorWallet") ELSE GivenWallet("agentWallet")

\* C18: in contract mode, when the requirement carries neither
\* extra.agentExecutorWallet nor extra.agentWallet the operation never calls
\* sendTransaction or confirm and, once the authorization is signed, has
\* failed with an error; when an executor wallet is given and only
\* extra.agentPayoutWallet is absent, the operation (with a signer that can
\* send) does not fail there: it calls sendTransaction with the executor
\* wallet as the payout wallet.
C18_WalletMetadata ==
  (pc \notin {"idle", "createIntent"} /\ FirstRequirementContractMode) =>
    /\ GivenExecutor = None =>
         /\ CallsOf("sendTransaction") = {} /\ CallsOf("confirm") = {}
         /\ pc # "done"
         /\ RetsOf("signTypedData") # {} => pc = "failed"
    /\ (/\ GivenExecutor # None
        /\ GivenWallet("agentPayoutWallet") = None
        /\ signer.sendTransaction
        /\ RetsOf("signTypedData") # {}) =>
         /\ Cardinality(CallsOf("sendTransaction")) = 1
         /\ \A k \in CallsOf("sendTransaction") :
              /\ trace[k].arg.data.agentExecutor = GivenExecutor[1]
              /\ trace[k].arg.data.agentPayout = GivenExecutor[1]
\* only agentWallet is given: it serves as executor and as payout wallet
C18_Witness ==
  /\ pc = "sendTransaction"
  /\ GivenWallet("agentExecutorWallet") = None
  /\ GivenWallet("agentWallet") = Some("0xAgent")
  /\ GivenWallet("agentPayoutWallet") = None
\* no executor wallet can be determined
C18_WitnessMissing ==
  /\ pc = "failed" /\ FirstRequirementContractMode /\ signer.sendTransaction
  /\ GivenExecutor = None /\ GivenWallet("agentPayoutWallet") = Some("0xPayout")
  /\ error.message = "Missing agent executor/payout wallets"

\* C19: no authorization is built from an invalid requirement: when the
\* first requirement's maxAmountRequired is malformed no signTypedData call
\* is made at all, and no signTypedData, settle or sendTransaction call
\* carries a payTo that is no address.
C19_InvalidRequirementNeverSigned ==
  /\ (pc \notin {"idle", "createIntent"}
      /\ intent.requirement.maxAmountRequired = Some(AmountMalformed)) =>
       CallsOf("signTypedData") = {}
  /\ \A k \in CallsOf("signTypedData") : trace[k].arg.message.to # MalformedPayTo
  /\ \A k \in CallsOf("settle") : AuthorizationOf(k).to # MalformedPayTo
  /\ \A k \in CallsOf("sendTransaction") : trace[k].arg.to # MalformedPayTo

C20_WitnessIntent == pc = "failed" /\ ThrowsOf("createIntent") # {}

\* C22: a result with success:false has mode "contract" and the hash that
\* sendTransaction returned in the operation, no confirm call of the
\* operation returned "settled" or failed, and the deadline has elapsed; a
\* contract-mode result with success:true follows a confirm call that
\* returned "settled"; an operation in which a collaborator call failed, or
\* which failed otherwise, has returned no result at all.
C22_FalseMeansTimeoutOnly ==
  /\ (pc = "done" /\ ~result.success) =>
       /\ result.mode = "contract"
       /\ \E k \in RetsOf("sendTransaction") : result.txHash = Some(trace[k].arg)
       /\ \A m \in RetsOf("confirm") : trace[m].arg # Settled
       /\ \A k \in DOMAIN trace : trace[k].kind # "throw"
       /\ now - start >= GivenTimeout
  /\ (pc = "done" /\ result.success /\ result.mode = "contract") =>
       /\ IsRet(Len(trace), "confirm")
       /\ trace[Len(trace)].arg = Settled
  /\ (pc = "failed" \/ \E k \in DOMAIN trace : trace[k].kind = "throw") =>
       result = NoResult
\* the caller's timeout elapses while confirm keeps answering "pending"
C22_Witness ==
  /\ pc = "done" /\ ~result.success
  /\ options = Some([pollIntervalMs |-> Some(PollOverride),
                     timeoutMs |-> Some(TimeoutOverride)])
  /\ Cardinality(RetsOf("confirm")) = 3

\* C23: parseUSDC(formatUSDC(x)) = x: once an amount has been formatted and
\* the string parsed back, parseUSDC has not thrown and has returned the
\* amount formatUSDC was given.
C23_RoundTrip ==
  reparsed # None =>
    /\ ~reparsed[1].threw
    /\ reparsed[1].value = baseUnits
\* the part of the law that holds: amounts that are not negative
C23_RoundTripNonNegative ==
  (reparsed # None /\ baseUnits >= 0) =>
    /\ ~reparsed[1].threw
    /\ reparsed[1].value = baseUnits
\* 1500000 is formatted as "1.5" and parsed back
C23_WitnessNonNegative ==
  /\ baseUnits = 1500000
  /\ formatted = Some(<<"1", ".", "5">>)
  /\ reparsed = Some([threw |-> FALSE, value |-> 1500000])

C26_VNormalizedFromYParity ==
  (sigV # None /\ (parsed.v = None \/ parsed.v[1] \in {27, 28})) =>
    /\ sigV[1] \in {27, 28}
    /\ parsed.yParity # None => sigV[1] = 27 + parsed.yParity[1]
C26_WitnessYParity == sigV = Some(28) /\ parsed = [v |-> None, yParity |-> Some(1)]

\* C28: every sendTransaction call goes to the first requirement's payTo
\* with the chain id of the signing domain, and its calldata carries the
\* signed authorization: payer, amount, validAfter, validBefore and nonce
\* are the from, value, validAfter, validBefore and nonce of the message
\* whose signature it carries; the job key is extra.jobKey when the
\* requirement has one and otherwise the hash of the job id.
C28_CalldataIsSignedAuthorization ==
  \A k \in CallsOf("sendTransaction") :
    /\ trace[k].arg.to = intent.requirement.payTo
    /\ \E m \in CallsOf("signTypedData") :
         /\ m + 1 < k
         /\ IsRet(m + 1, "signTypedData")
         /\ trace[m + 1].arg = trace[k].arg.data.vrs
         /\ trace[k].arg.chainId = trace[m].arg.domain.chainId
         /\ LET msg == trace[m].arg.message
                d == trace[k].arg.data
            IN  /\ d.poster = msg.from
                /\ d.totalAmount = msg.value
                /\ d.validAfter = msg.validAfter
                /\ d.validBefore = msg.validBefore
                /\ d.nonce = msg.nonce
    /\ trace[k].arg.data.jobId =
         IF IsSome(GivenWallet("jobKey")) THEN GivenWallet("jobKey")[1]
         ELSE Keccak256(jobId)
\* the requirement carries a precomputed job key
C28_Witness ==
  /\ pc = "sendTransaction"
  /\ GivenWallet("jobKey") = Some("0xJobKey")
  /\ trace[Len(trace)].arg.data.jobId = "0xJobKey"
  /\ trace[Len(trace)].arg.chainId = 8453
\* the requirement carries none: the key is the hash of the job id
C28_WitnessHashed ==
  /\ pc = "sendTransaction"
  /\ GivenWallet("jobKey") = None
  /\ trace[Len(trace)].arg.data.jobId = "0xKeccakOfJob1"

\* the requirements of the response: its requirements array, or its requirement
GivenRequirements == OrElse(intent.requirements, <<intent.requirement>>)
\* the chain id named by a network value of the model
NamedChainId(net) == IF net = Some(Net10) THEN 10 ELSE 8453
\* the last signTypedData call of the capture
LastSigning ==
  trace[CHOOSE k \in CallsOf("signTypedData") :
          \A m \in CallsOf("signTypedData") : m <= k].arg

\* C27: whenever a settle call is pending for index i of a batch and the
\* response lists a requirement i, the authorization in the call's header
\* is built from that requirement: to and value are its payTo and
\* maxAmountRequired, the header's network is its network, and the domain
\* of the signing that produced the header's signature has the chain id of
\* its network.
C27_BuiltFromOwnRequirement ==
  (pc = "settle" /\ i + 1 <= Len(GivenRequirements)) =>
    LET r == GivenRequirements[i + 1]
        a == header.payload.authorization
    IN  /\ a.to = r.payTo
        /\ a.value = r.maxAmountRequired[1]
        /\ header.network = r.network
        /\ LastSigning.message.to = r.payTo
        /\ LastSigning.domain.chainId = NamedChainId(r.network)

\* the chain id the network field names: the number after its colon
\* ("eip155:10" is 10), and 8453 for every value of the model without one
ExpectedChainId == IF intent.requirement.network = Some(Net10) THEN 10 ELSE 8453

\* C24: the chain id of the signing domain and of the sendTransaction call
\* is the number after the colon of the requirement's network, and 8453
\* when the field is absent, has no colon, or has an empty or non-numeric
\* suffix.
C24_ChainIdFromNetwork ==
  /\ \A k \in CallsOf("signTypedData") : trace[k].arg.domain.chainId = ExpectedChainId
  /\ \A k \in CallsOf("sendTransaction") : trace[k].arg.chainId = ExpectedChainId
\* the part that holds: a numeric suffix, no colon, or no network at all
C24_ChainIdParsedOrDefaulted ==
  intent.requirement.network \in {None, Some(Net8453), Some(Net10), Some(NetNoColon)} =>
    /\ \A k \in CallsOf("signTypedData") : trace[k].arg.domain.chainId = ExpectedChainId
    /\ \A k \in CallsOf("sendTransaction") : trace[k].arg.chainId = ExpectedChainId
C24_WitnessParsed ==
  /\ pc = "sendTransaction" /\ intent.requirement.network = Some(Net10)
  /\ trace[Len(trace)].arg.chainId = 10
C24_WitnessDefaulted ==
  /\ pc = "sendTransaction" /\ intent.requirement.network = Some(NetNoColon)
  /\ trace[Len(trace)].arg.chainId = 8453

\* the token address the asset field names: what follows "erc20:", and the
\* canonical USDC address when there is no such address
ExpectedTokenAddr ==
  LET a == intent.requirement.asset
  IN  IF a \in {Some(AssetOther), Some(AssetNoSlash)} THEN <<"0", "x", "a", "b", "c">>
      ELSE USDC_ADDRESS

\* C25: the signing domain's verifyingContract is the address after
\* "erc20:" in the requirement's asset, and the canonical USDC address when
\* the asset is absent, has no "erc20:" marker or has nothing after it.
C25_VerifyingContractFromAsset ==
  \A k \in CallsOf("signTypedData") : trace[k].arg.domain.verifyingContract = ExpectedTokenAddr
\* the part that holds: an address after "/erc20:", no marker, or no asset
C25_TokenParsedOrDefaulted ==
  intent.requirement.asset \in {None, Some(AssetUSDC), Some(AssetOther), Some(AssetNoMarker)} =>
    \A k \in CallsOf("signTypedData") : trace[k].arg.domain.verifyingContract = ExpectedTokenAddr
C25_WitnessParsed ==
  /\ pc = "signTypedData" /\ intent.requirement.asset = Some(AssetOther)
  /\ trace[Len(trace)].arg.domain.verifyingContract = <<"0", "x", "a", "b", "c">>
C25_WitnessDefaulted ==
  /\ pc = "signTypedData" /\ intent.requirement.asset = Some(AssetNoMarker)
  /\ trace[Len(trace)].arg.domain.verifyingContract = USDC_ADDRESS

\* the token the claim says is stored after the auth operations tr: the
\* constructor's, then the token of each verify response that carries one
\* and of each setToken; none after a completed logout; failures and
\* responses without a token change nothing
RECURSIVE StoredAfter(_)
StoredAfter(tr) ==
  IF tr = <<>> THEN None
  ELSE LET e == tr[Len(tr)]
           before == StoredAfter(SubSeq(tr, 1, Len(tr) - 1))
       IN  CASE e.op = "constructed" -> e.val
             [] e.op = "setToken" -> e.val
             [] e.op = "verify returned" ->
                  IF e.val # None /\ e.val # Some("") THEN e.val ELSE before
             [] e.op = "logout returned" -> None
             [] OTHER -> before
\* a token is stored: the stored value is a non-empty string
HoldsToken(t) == t # None /\ t # Some("")

\* C30: after any sequence of auth operations the stored token is the one
\* of the last successful verify-with-token or setToken, none after a
\* completed logout, and untouched by a failed logout, a failed verify or a
\* verify without token; isAuthenticated() is true exactly when a token is
\* stored, and a request carries the stored token as its Bearer header.
C30_AuthenticatedIffTokenStored ==
  /\ token = StoredAfter(authTrace)
  /\ isAuthenticated <=> HoldsToken(StoredAfter(authTrace))
  /\ \A k \in DOMAIN authTrace :
       LET stored == StoredAfter(SubSeq(authTrace, 1, k - 1))
       IN  /\ authTrace[k].op = "isAuthenticated" =>
                (authTrace[k].val <=> HoldsToken(stored))
           /\ authTrace[k].op = "request" =>
                authTrace[k].val.authorization =
                  (IF HoldsToken(stored) THEN Some(<<"Bearer", stored[1]>>) ELSE None)
\* a verify stored jwt2, a later request carried it, and isAuthenticated
\* answered true
C30_Witness ==
  /\ Len(authTrace) >= 4
  /\ authTrace[2].op = "request" /\ authTrace[2].val.path = "verify"
  /\ authTrace[3].op = "verify returned" /\ authTrace[3].val = Some("jwt2")
  /\ authTrace[4].op = "isAuthenticated" /\ authTrace[4].val
  /\ token = Some("jwt2")
\* a logout whose request failed left the token in place
C30_WitnessLogoutFailed ==
  /\ \E k \in DOMAIN authTrace : authTrace[k].op = "logout threw"
  /\ token = Some("jwt1") /\ isAuthenticated
\* a completed logout cleared the token
C30_WitnessLoggedOut ==
  /\ authTrace[1] = AuthEv("constructed", Some("jwt1"))
  /\ authTrace[Len(authTrace)].op = "logout returned"
  /\ token = None /\ ~isAuthenticated

\* C29: every fundJob operation terminates when the clock advances and
\* every collaborator call returns or fails: it ends as done or failed, and
\* it never makes more settle calls than there are payment ids.
C29_Terminates ==
  /\ <>(pc \in {"done", "failed"})
  /\ [](Cardinality(CallsOf("settle")) <= Len(AllPaymentIds(intent)))
\* the confirmation loop with pollIntervalMs 0 went round more than once
\* and ended timed out
C29_Witness ==
  /\ pc = "done" /\ ~result.success
  /\ OptionField(options, "pollIntervalMs") = Some(0)
  /\ Cardinality(CallsOf("confirm")) >= 2
\* the facilitator loop ended after one settle call per payment id
C29_WitnessFacilitator ==
  /\ pc = "done" /\ result.mode = "facilitator"
  /\ Len(AllPaymentIds(intent)) = 3
  /\ Cardinality(CallsOf("settle")) = 3

\* the locals and the call capture of operation k, running or suspended
LocalsOf(k) == IF running = k THEN Locals ELSE other
CallsIn(tr, fn) == {m \in DOMAIN tr : tr[m].kind = "call" /\ tr[m].fn = fn}
RetsIn(tr, fn) == {m \in DOMAIN tr : tr[m].kind = "ret" /\ tr[m].fn = fn}
\* what the operation's own collaborator calls returned to it
IntentIn(tr) == tr[CHOOSE m \in RetsIn(tr, "createIntent") : TRUE].arg
TxHashIn(tr) == tr[CHOOSE m \in RetsIn(tr, "sendTransaction") : TRUE].arg
NoncesIn(tr) == {tr[m].arg.message.nonce : m \in CallsIn(tr, "signTypedData")}
\* the calls and the result of a fundJob(job, "prop1", signer, opts) that
\* runs alone, as far as its arguments and its own collaborators' answers
\* determine them
AsWhenAlone(L, job, opts) ==
  LET tr == L.trace
  IN  /\ \A m \in CallsIn(tr, "createIntent") :
            tr[m].arg = [jobId |-> job, proposalId |-> "prop1"]
      /\ \A m \in CallsIn(tr, "signTypedData") :
            /\ tr[m].arg.message.from = "0xPayer"
            /\ tr[m].arg.message.to \in
                 {AllRequirements(IntentIn(tr))[n].payTo :
                    n \in DOMAIN AllRequirements(IntentIn(tr))}
      /\ \A m \in CallsIn(tr, "sendTransaction") :
            /\ tr[m].arg.to = IntentIn(tr).requirement.payTo
            /\ tr[m].arg.data.jobId = Keccak256(job)
            /\ tr[m].arg.data.nonce \in NoncesIn(tr)
      /\ \A m \in CallsIn(tr, "confirm") :
            tr[m].arg = [paymentId |-> IntentIn(tr).paymentId, txHash |-> TxHashIn(tr)]
      /\ \A m \in CallsIn(tr, "sleep") : tr[m].arg = PollInterval(opts)
      /\ \A m \in CallsIn(tr, "settle") :
            /\ tr[m].arg.paymentId =
                 AllPaymentIds(IntentIn(tr))[Cardinality({n \in CallsIn(tr, "settle") : n <= m})]
            /\ tr[m].arg.paymentHeader.payload.authorization.nonce \in NoncesIn(tr)
      /\ Cardinality(CallsIn(tr, "createIntent")) <= 1
      /\ Cardinality(CallsIn(tr, "sendTransaction")) <= 1
      /\ L.pc = "done" =>
            /\ L.result.paymentId = IntentIn(tr).paymentId
            /\ L.result.mode = "contract" => L.result.txHash = Some(TxHashIn(tr))
            /\ ~L.result.success =>
                  /\ now - L.start >= Timeout(opts)
                  /\ tr[Len(tr)].fn \in {"sendTransaction", "sleep"}
            /\ L.result.mode = "facilitator" =>
                  Cardinality(CallsIn(tr, "settle")) = Len(AllPaymentIds(IntentIn(tr)))

\* C21: under every interleaving of two fundJob operations for different
\* jobs, each operation's collaborator calls and result are those of the
\* operation running alone: they carry its own job, its own requirement and
\* payment ids, its own transaction hash and its own polling options, and
\* no authorization nonce of one operation appears in the other.
C21_OperationsIndependent ==
  /\ AsWhenAlone(LocalsOf(1), "job1", OptionsOf(1))
  /\ AsWhenAlone(LocalsOf(2), "job2", OptionsOf(2))
  /\ NoncesIn(LocalsOf(1).trace) \cap NoncesIn(LocalsOf(2).trace) = {}
\* both operations polled, interleaved, each sleeping its own interval
C21_Witness ==
  /\ CallsIn(LocalsOf(1).trace, "sleep") # {}
  /\ CallsIn(LocalsOf(2).trace, "sleep") # {}
  /\ LocalsOf(1).pc = "done" /\ LocalsOf(2).pc = "done"
  /\ LocalsOf(2).start < LocalsOf(1).start
  /\ LocalsOf(1).start < now
\* one operation settled a facilitator batch while the other polled
C21_WitnessMixed ==
  /\ LocalsOf(1).pc = "done" /\ LocalsOf(1).result.mode = "facilitator"
  /\ LocalsOf(2).pc = "done" /\ LocalsOf(2).result.mode = "contract"
  /\ LocalsOf(1).trace[1].kind = "call"
  /\ LocalsOf(1).nonce > LocalsOf(2).nonce /\ LocalsOf(1).feeNonce > LocalsOf(1).nonce

====
